---- MODULE Spec2Model ----
(***************************************************************************)
(* Model of todo.py: a Streamlit to-do list application over two MongoDB   *)
(* collections (users, tasks).  Every browser session runs the script in   *)
(* its own thread; the sessions share the two collections.  Each pymongo   *)
(* call (find_one, insert_one, update_one, delete_one, delete_many,        *)
(* count_documents) is one atomic step; a handler that makes several       *)
(* calls is a sequence of steps that other sessions can interleave with.   *)
(***************************************************************************)
EXTENDS Integers, Sequences, FiniteSets, TLC

VARIABLES
    users,      \* users_collection: sequence of documents, natural order
    tasks,      \* tasks_collection: sequence of documents, natural order
    created,    \* number of task documents ever inserted
    user_id,    \* st.session_state["user_id"] of every session
    pc,         \* position of every session's script run
    local,      \* local variables of the handler a session is running
    last,       \* the last step: its session, the message it showed
                \* (st.error/st.success/st.info), the documents its store call hit
    signups,    \* history: the Sign Ups that succeeded
    pw,         \* password under test (password specification only)
    pwResult    \* result of is_valid_password(pw) (password specification)

vars == <<users, tasks, created, user_id, pc, local, last, signups, pw, pwResult>>

-----------------------------------------------------------------------------
(* Bounds *)

\* task documents ever inserted
MaxTasks == 3
\* freely chosen characters of a password under test
MaxTail == 4
\* repeated characters in front of them
PadLen == 5

Sessions == {"s1", "s2"}

-----------------------------------------------------------------------------
(* Characters and strings.  A string is a sequence of one-character strings *)

Upper   == {"A", "B"}
Lower   == {"a", "b"}
Digit   == {"1", "2"}
Special == {"@", "$", "!", "%", "*", "?", "&"}
NL      == "\n"
Space   == " "
Hash    == "#"

MinPwLen == 8

\* '.' of the pattern: any character but a newline
Dot(c) == c /= NL

\* (?=.*[class]) anchored at position 0
Lookahead(p, class) ==
    \E i \in 1..Len(p) : p[i] \in class /\ \A j \in 1..(i - 1) : Dot(p[j])

\* [A-Za-z\d@$!%*?&]{8,}$ from position 0; without re.MULTILINE '$' matches
\* at the end of the string and just before a newline that ends the string
BodyClass == Upper \cup Lower \cup Digit \cup Special

AtDollar(p, n) == n = Len(p) \/ (n = Len(p) - 1 /\ p[Len(p)] = NL)

Body(p) ==
    \E n \in MinPwLen..Len(p) :
        /\ \A i \in 1..n : p[i] \in BodyClass
        /\ AtDollar(p, n)

is_valid_password(p) ==
    /\ Lookahead(p, Upper)
    /\ Lookahead(p, Lower)
    /\ Lookahead(p, Digit)
    /\ Lookahead(p, Special)
    /\ Body(p)

\* str.strip(): drop leading and trailing whitespace
IsSpace(c) == c \in {Space, NL}

RECURSIVE lstrip(_)
lstrip(t) == IF t /= <<>> /\ IsSpace(Head(t)) THEN lstrip(Tail(t)) ELSE t

RECURSIVE rstrip(_)
rstrip(t) ==
    IF t /= <<>> /\ IsSpace(t[Len(t)]) THEN rstrip(SubSeq(t, 1, Len(t) - 1)) ELSE t

strip(t) == rstrip(lstrip(t))

-----------------------------------------------------------------------------
(* ObjectId and its string form (two hexadecimal digits here) *)

HexBase == 16

StrOid(oid) == <<oid \div HexBase, oid % HexBase>>

ObjectId(s) == s[1] * HexBase + s[2]

None == <<>>

\* ObjectIds are unique; the store generates them in increasing order
TaskOidBase == 16

NewUserOid == Len(users) + 1

NewTaskOid == TaskOidBase + created + 1

-----------------------------------------------------------------------------
(* bcrypt *)

\* gensalt(): a salt that was not generated before
gensalt == Len(users) + 1

hashpw(password, salt) == [salt |-> salt, digest |-> <<salt, password>>]

checkpw(password, hashed) == hashpw(password, hashed.salt) = hashed

-----------------------------------------------------------------------------
(* datetime.date and str(date) *)

DigitChar == <<"0", "1", "2", "3", "4", "5", "6", "7", "8", "9">>

RECURSIVE Zfill(_, _)
Zfill(n, width) ==
    IF width = 0 THEN <<>>
    ELSE Zfill(n \div 10, width - 1) \o <<DigitChar[(n % 10) + 1]>>

StrDate(d) == Zfill(d.year, 4) \o <<"-">> \o Zfill(d.month, 2) \o <<"-">> \o Zfill(d.day, 2)

-----------------------------------------------------------------------------
(* Sequences as collections *)

Range(seq) == {seq[i] : i \in 1..Len(seq)}

\* find_one: the first document in natural order that matches, or None
FirstIndex(matching) ==
    IF matching = {} THEN 0 ELSE CHOOSE i \in matching : \A j \in matching : i <= j

Opt(seq, i) == IF i = 0 THEN <<>> ELSE <<seq[i]>>

RemoveAt(seq, i) ==
    IF i = 0 THEN seq ELSE SubSeq(seq, 1, i - 1) \o SubSeq(seq, i + 1, Len(seq))

-----------------------------------------------------------------------------
(* Store operations (pymongo); each is atomic on the collection *)

\* a lookup on a key no user document has: it finds nothing
users_find_one_wrong_key(coll, username) == <<>>

\* users_collection.find_one({"username": username})
users_find_one(coll, username) ==
    Opt(coll, FirstIndex({i \in 1..Len(coll) : coll[i].username = username}))

\* tasks_collection.find_one({"user_id": oid, "title": title})
tasks_find_one(coll, oid, title) ==
    Opt(coll, FirstIndex({i \in 1..Len(coll) :
                             coll[i].user_id = oid /\ coll[i].title = title}))

\* the projection {"title": 1, "description": 1, "due_date": 1, "completed": 1}
Project(d) ==
    [_id |-> d._id, title |-> d.title, description |-> d.description,
     due_date |-> d.due_date, completed |-> d.completed]

\* a find without the owner filter
tasks_find_all_owners(coll, oid) == [i \in 1..Len(coll) |-> Project(coll[i])]

\* tasks_collection.find({"user_id": oid}, projection)
tasks_find(coll, oid) ==
    LET hit == SelectSeq(coll, LAMBDA d : d.user_id = oid)
    IN  [i \in 1..Len(hit) |-> Project(hit[i])]

\* tasks_collection.count_documents({"user_id": oid, "completed": True})
count_documents(coll, oid) ==
    Len(SelectSeq(coll, LAMBDA d : d.user_id = oid /\ d.completed))

\* tasks_collection.update_one({"_id": id}, {"$set": {"completed": value}})
update_one(coll, id, value) ==
    LET i == FirstIndex({j \in 1..Len(coll) : coll[j]._id = id})
    IN  IF i = 0 THEN coll ELSE [coll EXCEPT ![i].completed = value]

\* a delete_one with an empty filter: it removes the first document
delete_one_no_filter(coll, id) == RemoveAt(coll, IF coll = <<>> THEN 0 ELSE 1)

\* tasks_collection.delete_one({"_id": id})
delete_one(coll, id) == RemoveAt(coll, FirstIndex({i \in 1..Len(coll) : coll[i]._id = id}))

\* a delete_many without the owner filter
delete_many_all_owners(coll, oid) == SelectSeq(coll, LAMBDA d : ~d.completed)

\* tasks_collection.delete_many({"user_id": oid, "completed": True})
delete_many(coll, oid) ==
    SelectSeq(coll, LAMBDA d : ~(d.user_id = oid /\ d.completed))

-----------------------------------------------------------------------------
(* Functions of todo.py *)

authenticate_user(username, password) ==
    LET user == users_find_one(users, username)
    IN  IF user /= <<>> /\ checkpw(password, user[1].password)
        THEN StrOid(user[1]._id)
        ELSE None

get_tasks(uid) == tasks_find(tasks, ObjectId(uid))

-----------------------------------------------------------------------------
(* Messages *)

MsgMissing      == "Please enter both a username and a password."
MsgLoggedIn     == "Logged in successfully!"
MsgInvalid      == "Invalid credentials."
MsgWeak         == "Password must include at least 8 characters, one uppercase letter, one lowercase letter, one number, and one special character."
MsgCreated      == "User created! Log in now."
MsgUserExists   == "Username already exists."
MsgTaskExists   == "Task with this title already exists."
MsgTaskAdded    == "Task added successfully!"
MsgTitleMissing == "Task Title is required!"
MsgDeleted      == "Task deleted successfully!"
MsgCleared      == "All completed tasks have been cleared."
MsgNothing      == "There are no completed tasks to clear."
MsgLoggedOut    == "You have been logged out."
NoMsg           == ""

-----------------------------------------------------------------------------
(* Inputs the users type *)

StrongPw1 == <<"A", "a", "a", "a", "a", "a", "1", "!">>
WeakPw    == <<"a", "b", "1">>

UsernameInputs == {"", "alice", "bob"}
PasswordInputs == {<<>>, WeakPw, StrongPw1}
TitleInputs    == {<<>>, <<Space>>, <<"X">>, <<Space, "X">>}
MoreTitles     == TitleInputs \cup {<<"Y">>, <<"Y", NL>>}
Descriptions   == {<<>>}
Dates          == {[year |-> 2024, month |-> 1, day |-> 1]}

-----------------------------------------------------------------------------
(* State *)

NoLocal ==
    [username |-> "", password |-> <<>>, inserted |-> 0, title |-> <<>>,
     description |-> <<>>, due_date |-> <<>>, task |-> <<>>,
     is_checked |-> FALSE]

Shows(s, m, n) == last' = [sess |-> s, msg |-> m, n |-> n]

InFlight(label) == Cardinality({t \in Sessions : pc[t] = label})

\* The database outlives the application.  The model starts on a database in
\* which "alice" has signed up before (create_user with the first ObjectId and
\* the first salt) and no task is stored, with every session fresh.
RegisteredUsers ==
    <<[_id |-> 1, username |-> "alice", password |-> hashpw(StrongPw1, 1)]>>

InitStore ==
    /\ users = RegisteredUsers
    /\ tasks = <<>>
    /\ created = 0
    /\ user_id = [s \in Sessions |-> None]
    /\ pc = [s \in Sessions |-> "idle"]
    /\ local = [s \in Sessions |-> NoLocal]
    /\ last = [sess |-> "none", msg |-> NoMsg, n |-> 0]
    /\ signups = {[username |-> "alice", password |-> StrongPw1,
                    created |-> 1, identity |-> StrOid(1)]}
    /\ pwResult = "unchecked"

Init ==
    /\ InitStore
    /\ pw = <<>>

-----------------------------------------------------------------------------
(* Authentication form (rendered while the session has no identity) *)

\* "Log In" button
Login(s, username, password) ==
    /\ pc[s] = "idle"
    /\ user_id[s] = None
    /\ IF username = "" \/ password = <<>>
       THEN /\ Shows(s, MsgMissing, 0)
            /\ UNCHANGED user_id
       ELSE LET uid == authenticate_user(username, password)
            IN  IF uid /= None
                THEN /\ user_id' = [user_id EXCEPT ![s] = uid]
                     /\ Shows(s, MsgLoggedIn, 0)
                ELSE /\ Shows(s, MsgInvalid, 0)
                     /\ UNCHANGED user_id
    /\ UNCHANGED <<users, tasks, created, pc, local, signups, pw, pwResult>>

\* "Sign Up" button, up to the find_one of create_user
SignUp(s, username, password) ==
    /\ pc[s] = "idle"
    /\ user_id[s] = None
    /\ IF username = "" \/ password = <<>>
       THEN /\ Shows(s, MsgMissing, 0)
            /\ UNCHANGED <<pc, local>>
       ELSE IF ~is_valid_password(password)
       THEN /\ Shows(s, MsgWeak, 0)
            /\ UNCHANGED <<pc, local>>
       ELSE IF users_find_one(users, username) /= <<>>
       THEN /\ Shows(s, MsgUserExists, 0)
            /\ UNCHANGED <<pc, local>>
       ELSE /\ Shows(s, NoMsg, 0)
            /\ pc' = [pc EXCEPT ![s] = "create_user_insert"]
            /\ local' = [local EXCEPT ![s] =
                            [NoLocal EXCEPT !.username = username, !.password = password]]
    /\ UNCHANGED <<users, tasks, created, user_id, signups, pw, pwResult>>

\* create_user: hashpw with a fresh salt, then insert_one
create_user_insert(s) ==
    /\ pc[s] = "create_user_insert"
    /\ users' = Append(users, [_id |-> NewUserOid,
                               username |-> local[s].username,
                               password |-> hashpw(local[s].password, gensalt)])
    /\ local' = [local EXCEPT ![s].inserted = NewUserOid]
    /\ pc' = [pc EXCEPT ![s] = "signup_find"]
    /\ Shows(s, NoMsg, 1)
    /\ UNCHANGED <<tasks, created, user_id, signups, pw, pwResult>>

\* create_user returned True: find_one by username, set the session identity
signup_find(s) ==
    /\ pc[s] = "signup_find"
    /\ LET user == users_find_one(users, local[s].username)
       IN  /\ user_id' = [user_id EXCEPT ![s] = StrOid(user[1]._id)]
           /\ signups' = signups \cup
                  {[username |-> local[s].username, password |-> local[s].password,
                    created |-> local[s].inserted, identity |-> StrOid(user[1]._id)]}
    /\ Shows(s, MsgCreated, 1)
    /\ pc' = [pc EXCEPT ![s] = "idle"]
    /\ local' = [local EXCEPT ![s] = NoLocal]
    /\ UNCHANGED <<users, tasks, created, pw, pwResult>>

\* a Log Out that leaves "user_id" in the session state
logout_keeps_identity(s) ==
    /\ pc[s] = "idle"
    /\ user_id[s] /= None
    /\ Shows(s, MsgLoggedOut, 0)
    /\ UNCHANGED <<users, tasks, created, user_id, pc, local, signups, pw, pwResult>>

\* "Log Out" button: st.session_state.clear(), then the rerun sets user_id to None
logout(s) ==
    /\ pc[s] = "idle"
    /\ user_id[s] /= None
    /\ user_id' = [user_id EXCEPT ![s] = None]
    /\ Shows(s, MsgLoggedOut, 0)
    /\ UNCHANGED <<users, tasks, created, pc, local, signups, pw, pwResult>>

-----------------------------------------------------------------------------
(* Task form and task list (rendered while the session has an identity) *)

\* "Add Task" button, up to the find_one of add_task
AddTask(s, title, description, due_date) ==
    /\ pc[s] = "idle"
    /\ user_id[s] /= None
    /\ IF strip(title) /= <<>>
       THEN IF tasks_find_one(tasks, ObjectId(user_id[s]), strip(title)) /= <<>>
            THEN /\ Shows(s, MsgTaskExists, 0)
                 /\ UNCHANGED <<pc, local>>
            ELSE /\ created + InFlight("add_task_insert") < MaxTasks
                 /\ Shows(s, NoMsg, 0)
                 /\ pc' = [pc EXCEPT ![s] = "add_task_insert"]
                 /\ local' = [local EXCEPT ![s] =
                                 [NoLocal EXCEPT !.title = strip(title),
                                                 !.description = description,
                                                 !.due_date = due_date]]
       ELSE /\ Shows(s, MsgTitleMissing, 0)
            /\ UNCHANGED <<pc, local>>
    /\ UNCHANGED <<users, tasks, created, user_id, signups, pw, pwResult>>

\* add_task: insert_one
add_task_insert(s) ==
    /\ pc[s] = "add_task_insert"
    /\ tasks' = Append(tasks, [_id |-> NewTaskOid,
                               user_id |-> ObjectId(user_id[s]),
                               title |-> local[s].title,
                               description |-> local[s].description,
                               due_date |-> StrDate(local[s].due_date),
                               completed |-> FALSE])
    /\ created' = created + 1
    /\ Shows(s, MsgTaskAdded, 1)
    /\ pc' = [pc EXCEPT ![s] = "idle"]
    /\ local' = [local EXCEPT ![s] = NoLocal]
    /\ UNCHANGED <<users, user_id, signups, pw, pwResult>>

\* a script run fetches the list; the checkbox of one listed task differs
\* from the fetched value
ToggleComplete(s, is_checked) ==
    /\ pc[s] = "idle"
    /\ user_id[s] /= None
    /\ LET shown == get_tasks(user_id[s])
       IN  \E i \in 1..Len(shown) :
              /\ is_checked /= shown[i].completed
              /\ local' = [local EXCEPT ![s] =
                              [NoLocal EXCEPT !.task = <<shown[i]>>,
                                              !.is_checked = is_checked]]
    /\ pc' = [pc EXCEPT ![s] = "update_one"]
    /\ Shows(s, NoMsg, 0)
    /\ UNCHANGED <<users, tasks, created, user_id, signups, pw, pwResult>>

\* update_one by _id, then st.rerun()
toggle_update_one(s) ==
    /\ pc[s] = "update_one"
    /\ tasks' = update_one(tasks, local[s].task[1]._id, local[s].is_checked)
    /\ pc' = [pc EXCEPT ![s] = "idle"]
    /\ local' = [local EXCEPT ![s] = NoLocal]
    /\ Shows(s, NoMsg,
             IF \E d \in Range(tasks) : d._id = local[s].task[1]._id THEN 1 ELSE 0)
    /\ UNCHANGED <<users, created, user_id, signups, pw, pwResult>>

\* a script run fetches the list; the "Delete" button of one listed task is pressed
DeleteTask(s) ==
    /\ pc[s] = "idle"
    /\ user_id[s] /= None
    /\ LET shown == get_tasks(user_id[s])
       IN  \E i \in 1..Len(shown) :
              local' = [local EXCEPT ![s] =
                           [NoLocal EXCEPT !.task = <<shown[i]>>]]
    /\ pc' = [pc EXCEPT ![s] = "delete_one"]
    /\ Shows(s, NoMsg, 0)
    /\ UNCHANGED <<users, tasks, created, user_id, signups, pw, pwResult>>

\* delete_task: delete_one by _id, success message, st.rerun()
delete_task(s) ==
    /\ pc[s] = "delete_one"
    /\ tasks' = delete_one(tasks, local[s].task[1]._id)
    /\ Shows(s, MsgDeleted, Len(tasks) - Len(tasks'))
    /\ pc' = [pc EXCEPT ![s] = "idle"]
    /\ local' = [local EXCEPT ![s] = NoLocal]
    /\ UNCHANGED <<users, created, user_id, signups, pw, pwResult>>

\* "Clear Completed Tasks" button: the list is fetched, then clear_completed_tasks
\* counts the owner's completed tasks
ClearCompleted(s) ==
    /\ pc[s] = "idle"
    /\ user_id[s] /= None
    /\ IF count_documents(tasks, ObjectId(user_id[s])) > 0
       THEN /\ pc' = [pc EXCEPT ![s] = "delete_many"]
            /\ UNCHANGED local
            /\ Shows(s, NoMsg, 0)
       ELSE /\ Shows(s, MsgNothing, 0)
            /\ UNCHANGED <<pc, local>>
    /\ UNCHANGED <<users, tasks, created, user_id, signups, pw, pwResult>>

\* clear_completed_tasks: delete_many, success message, st.rerun()
clear_delete_many(s) ==
    /\ pc[s] = "delete_many"
    /\ tasks' = delete_many(tasks, ObjectId(user_id[s]))
    /\ Shows(s, MsgCleared, Len(tasks) - Len(tasks'))
    /\ pc' = [pc EXCEPT ![s] = "idle"]
    /\ local' = [local EXCEPT ![s] = NoLocal]
    /\ UNCHANGED <<users, created, user_id, signups, pw, pwResult>>

-----------------------------------------------------------------------------

Next ==
    \/ \E s \in Sessions, u \in UsernameInputs, p \in PasswordInputs : Login(s, u, p)
    \/ \E s \in Sessions, u \in UsernameInputs, p \in PasswordInputs : SignUp(s, u, p)
    \/ \E s \in Sessions : create_user_insert(s)
    \/ \E s \in Sessions : signup_find(s)
    \/ \E s \in Sessions : logout(s)
    \/ \E s \in Sessions, t \in TitleInputs, d \in Descriptions, dd \in Dates :
          AddTask(s, t, d, dd)
    \/ \E s \in Sessions : add_task_insert(s)
    \/ \E s \in Sessions, c \in BOOLEAN : ToggleComplete(s, c)
    \/ \E s \in Sessions : toggle_update_one(s)
    \/ \E s \in Sessions : DeleteTask(s)
    \/ \E s \in Sessions : delete_task(s)
    \/ \E s \in Sessions : ClearCompleted(s)
    \/ \E s \in Sessions : clear_delete_many(s)

Spec == Init /\ [][Next]_vars

-----------------------------------------------------------------------------
(* The task list on its own: "alice" and "bob" have signed up before, every  *)
(* session is logged in as one of them, and the sessions use the task form   *)
(* and the task list only (more titles than above)                           *)

TwoUsers ==
    Append(RegisteredUsers, [_id |-> 2, username |-> "bob", password |-> hashpw(StrongPw1, 2)])

InitTasks ==
    /\ users = TwoUsers
    /\ tasks = <<>>
    /\ created = 0
    /\ user_id \in [Sessions -> {StrOid(TwoUsers[i]._id) : i \in 1..Len(TwoUsers)}]
    /\ pc = [s \in Sessions |-> "idle"]
    /\ local = [s \in Sessions |-> NoLocal]
    /\ last = [sess |-> "none", msg |-> NoMsg, n |-> 0]
    /\ signups = {[username |-> TwoUsers[i].username, password |-> StrongPw1,
                    created |-> TwoUsers[i]._id, identity |-> StrOid(TwoUsers[i]._id)] :
                       i \in 1..Len(TwoUsers)}
    /\ pwResult = "unchecked"
    /\ pw = <<>>

NextTasks ==
    \/ \E s \in Sessions, t \in MoreTitles, d \in Descriptions, dd \in Dates :
          AddTask(s, t, d, dd)
    \/ \E s \in Sessions : add_task_insert(s)
    \/ \E s \in Sessions, c \in BOOLEAN : ToggleComplete(s, c)
    \/ \E s \in Sessions : toggle_update_one(s)
    \/ \E s \in Sessions : DeleteTask(s)
    \/ \E s \in Sessions : delete_task(s)
    \/ \E s \in Sessions : ClearCompleted(s)
    \/ \E s \in Sessions : clear_delete_many(s)

SpecTasks == InitTasks /\ [][NextTasks]_vars

-----------------------------------------------------------------------------
(* is_valid_password on its own: the password is drawn from a bounded set,  *)
(* then validated                                                           *)

PwAlphabet == {"A", "a", "1", "!", Hash, NL}

PadChars == {"A", "a", "1", "!"}

Tails == UNION {[1..n -> PwAlphabet] : n \in 0..MaxTail}

Pads == {<<>>} \cup {[i \in 1..PadLen |-> c] : c \in PadChars}

PwInputs == {pad \o tail : pad \in Pads, tail \in Tails}

InitPw ==
    /\ InitStore
    /\ pw \in PwInputs

CheckPassword ==
    /\ pwResult = "unchecked"
    /\ pwResult' = IF is_valid_password(pw) THEN "valid" ELSE "invalid"
    /\ UNCHANGED <<users, tasks, created, user_id, pc, local, last, signups, pw>>

NextPw == CheckPassword

SpecPw == InitPw /\ [][NextPw]_vars

-----------------------------------------------------------------------------
(* Properties *)

Owner(s) == ObjectId(user_id[s])

LoggedIn(s) == user_id[s] /= None

\* C1: no two stored tasks of the same owner have the same title, also when
\* two sessions of one owner add tasks concurrently.
C1_UniqueTitlePerOwner ==
    \A i, j \in 1..Len(tasks) :
        (i /= j /\ tasks[i].user_id = tasks[j].user_id) => tasks[i].title /= tasks[j].title

\* C2: the users collection holds at most one document per username, also
\* when two sessions sign up with the same username concurrently.
C2_UniqueUsername ==
    \A i, j \in 1..Len(users) : i /= j => users[i].username /= users[j].username

\* C3: a Sign Up that succeeds places in the session the id of the document
\* it inserted; every Log In with the username and password of a Sign Up that
\* succeeded yields the identity that Sign Up placed, and a Log In with that
\* username and another password yields no identity.
C3_SignUpThenLogIn ==
    [][\A s \in Sessions :
          /\ signup_find(s) => user_id'[s] = StrOid(local[s].inserted)
          /\ \A u \in UsernameInputs, p \in PasswordInputs :
                Login(s, u, p) =>
                    \A r \in signups :
                        r.username = u =>
                            user_id'[s] = IF p = r.password THEN r.identity ELSE None]_vars

\* C4: is_valid_password(p) is true exactly when p has at least 8 characters,
\* an uppercase letter, a lowercase letter, a digit and one of @$!%*?&.
Policy(p) ==
    /\ Len(p) >= MinPwLen
    /\ \E i \in 1..Len(p) : p[i] \in Upper
    /\ \E i \in 1..Len(p) : p[i] \in Lower
    /\ \E i \in 1..Len(p) : p[i] \in Digit
    /\ \E i \in 1..Len(p) : p[i] \in Special

C4_PasswordPolicy ==
    pwResult /= "unchecked" => (pwResult = "valid" <=> Policy(pw))

\* C10: Clear Completed Tasks shows the success message only when its
\* delete_many deleted at least one task, and shows "There are no completed
\* tasks to clear." only when the owner has no completed task.
C10_ClearReportsWhatItDid ==
    /\ last.msg = MsgCleared => last.n >= 1
    /\ last.msg = MsgNothing => count_documents(tasks, Owner(last.sess)) = 0

\* C5: a conflict failure mutates no state.  A Sign Up that passes validation
\* and whose username is taken shows "Username already exists."; an Add Task
\* whose (stripped) title the session's owner already has shows "Task with
\* this title already exists."; either leaves the users, the tasks and every
\* session's identity as they were.
TakenUsername(u) == \E d \in Range(users) : d.username = u

TakenTitle(s, t) == \E d \in Range(tasks) : d.user_id = Owner(s) /\ d.title = strip(t)

StoreAndIdentityUnchanged == UNCHANGED <<users, tasks, user_id>>

\* the non-empty passwords that pass the Sign Up validation
PolicyPasswords == {p \in PasswordInputs \ {<<>>} : is_valid_password(p)}

\* a step of the handler exists, and every step of it shows m and changes
\* neither store nor any identity
OnlyRefuses(Handler, m) ==
    /\ ENABLED Handler
    /\ ~ENABLED (Handler /\ ~(last'.msg = m /\ StoreAndIdentityUnchanged))

C5_ConflictMutatesNothing ==
    \A s \in Sessions :
        pc[s] = "idle" =>
            /\ ~LoggedIn(s) =>
                  \A u \in UsernameInputs \ {""}, p \in PolicyPasswords :
                      TakenUsername(u) => OnlyRefuses(SignUp(s, u, p), MsgUserExists)
            /\ LoggedIn(s) =>
                  \A t \in TitleInputs, d \in Descriptions, dd \in Dates :
                      TakenTitle(s, t) => OnlyRefuses(AddTask(s, t, d, dd), MsgTaskExists)

\* a Sign Up has just been refused for a taken username while tasks are
\* stored and the other session is logged in
C5_Witness ==
    /\ last.msg = MsgUserExists
    /\ tasks /= <<>>
    /\ \E s \in Sessions : LoggedIn(s)

\* C6: the delete_many of Clear Completed Tasks in a session with identity u
\* removes exactly the completed tasks of u: afterwards u has no completed
\* task, every other document is still stored unchanged and in the same
\* order, and a Clear Completed Tasks of the same owner right after it shows
\* "There are no completed tasks to clear." and removes nothing.
IsSubSeq(a, b) ==
    \E pos \in [1..Len(a) -> 1..Len(b)] :
        /\ \A i \in 1..Len(a) : a[i] = b[pos[i]]
        /\ \A i, j \in 1..Len(a) : i < j => pos[i] < pos[j]

C6_ClearRemovesExactlyCompleted ==
    [][\A s \in Sessions :
          /\ clear_delete_many(s) =>
                /\ \A d \in Range(tasks') : ~(d.user_id = Owner(s) /\ d.completed)
                /\ \A d \in Range(tasks) :
                      (d.user_id /= Owner(s) \/ ~d.completed) => d \in Range(tasks')
                /\ IsSubSeq(tasks', tasks)
                /\ last'.n = Cardinality({i \in 1..Len(tasks) :
                                  tasks[i].user_id = Owner(s) /\ tasks[i].completed})
          /\ (last.msg = MsgCleared /\ LoggedIn(s) /\ LoggedIn(last.sess)
                /\ Owner(s) = Owner(last.sess) /\ ClearCompleted(s))
                => last'.msg = MsgNothing /\ tasks' = tasks /\ pc'[s] = "idle"]_vars

\* Clear Completed Tasks has just removed a task of its owner while another
\* task of the owner and a completed task of another owner are stored
C6_Witness ==
    /\ last.msg = MsgCleared
    /\ last.n >= 1
    /\ \E d \in Range(tasks) : d.user_id = Owner(last.sess)
    /\ \E d \in Range(tasks) : d.user_id /= Owner(last.sess) /\ d.completed

\* C7: delete_task removes the task with the given id, if there is one, and
\* leaves every other task unchanged; with no such task it still shows its
\* message and the tasks are unchanged.
C7_DeleteRemovesOnlyThatTask ==
    [][\A s \in Sessions :
          delete_task(s) =>
              LET id == local[s].task[1]._id
              IN  /\ \A d \in Range(tasks) : d._id /= id => d \in Range(tasks')
                  /\ \A d \in Range(tasks') : d._id /= id /\ d \in Range(tasks)
                  /\ IsSubSeq(tasks', tasks)
                  /\ Len(tasks) - Len(tasks') <= 1
                  /\ (\A d \in Range(tasks) : d._id /= id)
                        => tasks' = tasks /\ last'.msg = MsgDeleted /\ pc'[s] = "idle"]_vars

\* delete_task has just run on the id of a task that another session had
\* deleted, while another task is stored
C7_Witness ==
    /\ last.msg = MsgDeleted
    /\ last.n = 0
    /\ tasks /= <<>>

\* C8: a session starts with no identity; its identity changes only from
\* none to the id of a stored user in a step that shows "Logged in
\* successfully!" or "User created! Log in now.", or to none by Log Out; a
\* step that shows a validation, credential or duplicate-username error
\* leaves it none; whenever set it is the id of a document in users.
AuthErrors == {MsgMissing, MsgWeak, MsgInvalid, MsgUserExists}

IdentityIsStoredUser(s) ==
    LoggedIn(s) => \E d \in Range(users) : StrOid(d._id) = user_id[s]

C8_SessionIdentity ==
    /\ \A s \in Sessions : user_id[s] = None
    /\ [](\A s \in Sessions : IdentityIsStoredUser(s))
    /\ [][\A s \in Sessions :
             /\ user_id'[s] /= user_id[s] =>
                   \/ /\ user_id[s] = None
                      /\ last'.sess = s
                      /\ last'.msg \in {MsgLoggedIn, MsgCreated}
                      /\ \E d \in Range(users') : StrOid(d._id) = user_id'[s]
                   \/ /\ user_id'[s] = None
                      /\ last'.sess = s
                      /\ last'.msg = MsgLoggedOut
             /\ (last'.sess = s /\ last'.msg \in AuthErrors)
                   => user_id[s] = None /\ user_id'[s] = None
             /\ logout(s) => user_id'[s] = None]_vars

\* a session has just logged out and has no identity, after a Sign Up created
\* a user, while the other session is logged in
C8_Witness ==
    /\ last.msg = MsgLoggedOut
    /\ user_id[last.sess] = None
    /\ Len(users) > Len(RegisteredUsers)
    /\ \E s \in Sessions : LoggedIn(s)

\* C9: a step of a session with identity u adds, changes or removes only
\* tasks whose owner is u; the list the session is shown, and the row its
\* running handler works on, hold only stored tasks whose owner is u.
OwnedBy(row, s) ==
    \E d \in Range(tasks) : d._id = row._id /\ d.user_id = Owner(s)

C9_Isolation ==
    /\ [](\A s \in Sessions :
             /\ LoggedIn(s) => \A row \in Range(get_tasks(user_id[s])) : OwnedBy(row, s)
             /\ pc[s] \in {"update_one", "delete_one"} =>
                   \A d \in Range(tasks) :
                       d._id = local[s].task[1]._id => d.user_id = Owner(s))
    /\ [][\A s \in Sessions :
             (last'.sess = s /\ tasks' /= tasks) =>
                 /\ LoggedIn(s)
                 /\ \A d \in Range(tasks) : d \notin Range(tasks') => d.user_id = Owner(s)
                 /\ \A d \in Range(tasks') : d \notin Range(tasks) => d.user_id = Owner(s)]_vars

\* two sessions with different identities; one has just deleted a task of its
\* own while a task of the other is stored
C9_Witness ==
    /\ \A s \in Sessions : LoggedIn(s)
    /\ \E s, t \in Sessions : user_id[s] /= user_id[t]
    /\ last.msg = MsgDeleted
    /\ last.n = 1
    /\ \E d \in Range(tasks) : d.user_id /= Owner(last.sess)

====
